---- MODULE Spec2Model ----
(***************************************************************************)
(* The two climate-sensor firmware agents of the repository:               *)
(*   frontend/firmware/esp32_climate_sensor.py        (MicroPython)        *)
(*   frontend/firmware/raspberry_pi_climate_sensor.py (CPython)            *)
(* Each polls a DHT22 and an MQ-135, builds one reading, posts it to the   *)
(* backend and sleeps.  `variant` selects the program; every action is the *)
(* translation of one stretch of that program's code.                      *)
(*                                                                         *)
(* Numbers.  The code computes co2_ppm = (raw / FULL_SCALE) * 1000 in      *)
(* floating point.  The model keeps the exact rational raw*1000/FULL_SCALE *)
(* as a pair num/den; for every raw value of both ranges the IEEE result   *)
(* (double, and single precision as MicroPython uses on the ESP32) falls   *)
(* on the same side of 400 and of 1000 as the exact quotient, and for the  *)
(* Raspberry Pi the quotient raw*125/128 is exact in binary.  round(x, 2)  *)
(* is modelled as round-half-even to hundredths of the exact value.        *)
(* Temperatures and humidities are in tenths, the DHT22's resolution.      *)
(***************************************************************************)
EXTENDS Integers, Sequences, FiniteSets, TLC

\* Bound of the model: the number of poll cycles (read_sensors calls) explored.
MaxCycles == 3

Variants == {"esp32", "rpi"}

\* Python's None as returned by read_sensors / read_retry.
NoData == [kind |-> "None"]

VARIABLES
  variant,      \* which of the two programs runs
  pc,           \* position of the single flow of control
  wlan,         \* esp32: wlan.isconnected()
  timeout,      \* esp32: connect_wifi's local counter
  sensor_data,  \* main/run's local sensor_data
  led,          \* the status LED pin level
  net,          \* the request in flight: "idle", "live" (an answer or an error
                \* will come) or "silent" (the backend never answers)
  ret,          \* what the last send_data call returned: "None", "True", "False"
  stopReason,   \* why the program ended: "none", "keyboard_interrupt",
                \* "no_wifi", "exception"
  cycle,        \* number of read_sensors calls so far
  sent,         \* history: seq numbers of the records handed to send_data
  answers,      \* history: how each finished send attempt ended
  pulsed,       \* history: number of LED pulses started by the current attempt
  cycleSends,   \* history: send attempts started in the current cycle
  slept,        \* history: duration of the last completed sleep of the loop
  gap,          \* history: time slept since the last send attempt started
  gaps,         \* history: the gap before each send attempt
  held          \* history: seq numbers of the records awaiting transmission,
                \* oldest first: those read_sensors has returned and whose
                \* send_data call has not yet come to an outcome

vars == <<variant, pc, wlan, timeout, sensor_data, led, net, ret, stopReason,
          cycle, sent, answers, pulsed, cycleSends, slept, gap, gaps, held>>

hist == <<sent, answers, pulsed, cycleSends, slept, gap, gaps, held>>

(***************************************************************************)
(* Inputs of the environment.                                              *)
(***************************************************************************)
\* A float returned by the DHT22 driver, in tenths of a degree / of a percent.
Float(x) == [kind |-> "float", tenths |-> x]

\* DHT22 samples.
Temps == {Float(245)}
Hums == {Float(550)}

\* The ESP32's ADC is read at its default 12-bit width.
Esp32RawRange == 0 .. 4095
\* random.randint(100, 1000), both ends included.
RpiRawRange == 100 .. 1000

\* The raw values the full state machine is explored with: the ends of each
\* range and the values on both sides of each category boundary.
Esp32RawSamples == {0, 200, 1637, 1638, 2048, 4095}
RpiRawSamples == {100, 409, 410, 1000}

\* What the backend can answer.
Statuses == {200, 201, 404, 500}

(***************************************************************************)
(* The normaliser: lines 62-73 of both programs.                           *)
(***************************************************************************)
\* Mutation: the full scale of a 10-bit converter used on the ESP32.
Esp32FullScaleTenBit == 4095 \div 4

\* co2_ppm = (mq135_raw / 4095.0) * 1000
Esp32FullScale == 4095
\* co2_ppm = (mq135_raw / 1024.0) * 1000
RpiFullScale == 1024

\* co2_ppm = (mq135_raw / FULL_SCALE) * 1000, as the exact quotient num/den.
Co2Ppm(raw, fullScale) == [num |-> raw * 1000, den |-> fullScale]

\* c < k for a quotient c and an integer k.
Below(c, k) == c.num < k * c.den

\* Mutation: `<=` for the first `<`, which puts the boundary 400 in Good.
AirQualityBoundaryLow(c) ==
  IF Below(c, 400) \/ c.num = 400 * c.den THEN "Good"
  ELSE IF Below(c, 1000) THEN "Moderate" ELSE "Poor"

\* "Good" if co2_ppm < 400 else "Moderate" if co2_ppm < 1000 else "Poor"
AirQuality(c) ==
  IF Below(c, 400) THEN "Good"
  ELSE IF Below(c, 1000) THEN "Moderate" ELSE "Poor"

\* round(x, 2) of the non-negative quotient num/den, in hundredths.
Round2(num, den) ==
  LET n == num * 100
      q == n \div den
      r == n % den
  IN IF 2 * r > den \/ (2 * r = den /\ q % 2 = 1) THEN q + 1 ELSE q

\* The dict read_sensors returns on the ESP32.  seq is the identity of the
\* dict object: the ordinal of the poll that built it.
Esp32Record(n, t, h, raw) ==
  [kind |-> "reading", seq |-> n, temperature |-> t, humidity |-> h,
   co2 |-> Co2Ppm(raw, Esp32FullScale),
   air_quality |-> AirQuality(Co2Ppm(raw, Esp32FullScale)),
   raw_mq135 |-> raw]

\* The dict read_sensors returns on the Raspberry Pi: temperature, humidity
\* and co2 rounded to hundredths, the category taken from the unrounded co2.
RpiRecord(n, t, h, raw) ==
  [kind |-> "reading", seq |-> n,
   temperature |-> Round2(t.tenths, 10), humidity |-> Round2(h.tenths, 10),
   co2 |-> Round2(Co2Ppm(raw, RpiFullScale).num, Co2Ppm(raw, RpiFullScale).den),
   air_quality |-> AirQuality(Co2Ppm(raw, RpiFullScale)),
   raw_mq135 |-> raw]

\* if humidity is None or temperature is None
ReadingMissing(h, t) == h = NoData \/ t = NoData

\* Mutation: the branch on the read's result always takes the send side.
HasDataAlways(d) == TRUE

\* `if sensor_data:` a non-empty dict is truthy, None is not.
HasData(d) == d # NoData

(***************************************************************************)
(* The transmitter.                                                        *)
(***************************************************************************)
\* response.status_code == 200
StatusOk(status) == status = 200

\* requests.post(..., timeout=30) on the Raspberry Pi; urequests.post is
\* called without a timeout on the ESP32 and its socket blocks.
Esp32HasTimeout == FALSE
RpiHasTimeout == TRUE

Answer(kind, code) == [kind |-> kind, code |-> code]

(***************************************************************************)
(* Cadence.                                                                *)
(***************************************************************************)
\* time.sleep(60) at the end of a cycle.
PollInterval == 60

\* esp32: time.sleep(10) after "Main loop error".
ErrorDelay == 10

\* esp32: `timeout < 30` in connect_wifi.
WifiTimeoutLimit == 30

(***************************************************************************)
(* Initial states.                                                         *)
(***************************************************************************)
\* esp32: module level up to the call of connect_wifi; the link may already
\* be up.  led = Pin(LED_PIN, Pin.OUT) gives the pin no value and nothing
\* writes it before the first 200 answer, so the LED starts at whichever
\* level the output latch holds.
\* rpi: ClimateSensor() has run setup_gpio, which drives the LED low; run()
\* is entered.
Init ==
  /\ variant \in Variants
  /\ pc = IF variant = "esp32" THEN "start" ELSE "read"
  /\ wlan \in IF variant = "esp32" THEN BOOLEAN ELSE {TRUE}
  /\ timeout = 0
  /\ sensor_data = NoData
  /\ led \in IF variant = "esp32" THEN BOOLEAN ELSE {FALSE}
  /\ net = "idle"
  /\ ret = "None"
  /\ stopReason = "none"
  /\ cycle = 0
  /\ sent = <<>>
  /\ answers = <<>>
  /\ pulsed = 0
  /\ cycleSends = 0
  /\ slept = 0
  /\ gap = 0
  /\ gaps = <<>>
  /\ held = <<>>

(***************************************************************************)
(* esp32: connect_wifi and main's check of it.                             *)
(***************************************************************************)
\* wlan.active(True); already connected: return True.  Otherwise
\* wlan.connect(...) and timeout = 0.
connect_wifi ==
  /\ variant = "esp32" /\ pc = "start"
  /\ IF wlan THEN pc' = "read" ELSE pc' = "wifi_wait"
  /\ timeout' = 0
  /\ UNCHANGED <<variant, wlan, sensor_data, led, net, ret, stopReason, cycle>>
  /\ UNCHANGED hist

\* One turn of `while not wlan.isconnected() and timeout < 30`: sleep a
\* second, during which the link may come up.
wifi_wait ==
  /\ variant = "esp32" /\ pc = "wifi_wait"
  /\ ~wlan /\ timeout < WifiTimeoutLimit
  /\ timeout' = timeout + 1
  /\ wlan' \in BOOLEAN
  /\ UNCHANGED <<variant, pc, sensor_data, led, net, ret, stopReason, cycle>>
  /\ UNCHANGED hist

\* The loop is left: connected -> return True and main goes on; not
\* connected -> return False and main returns ("Cannot continue without WiFi").
\* The local counter ends with the call.
wifi_result ==
  /\ variant = "esp32" /\ pc = "wifi_wait"
  /\ wlan \/ timeout >= WifiTimeoutLimit
  /\ IF wlan
       THEN pc' = "read" /\ UNCHANGED stopReason
       ELSE pc' = "stopped" /\ stopReason' = "no_wifi"
  /\ timeout' = 0
  /\ UNCHANGED <<variant, wlan, sensor_data, led, net, ret, cycle>>
  /\ UNCHANGED hist

(***************************************************************************)
(* read_sensors and the branch on its result in main / run.                *)
(***************************************************************************)
\* Mutation: the branch never reaches send_data.
AfterReadSkip(d) == "sleep"

\* The branch `if sensor_data: ... else: print("Failed to read sensors")`.
AfterRead(d) == IF HasData(d) THEN "report" ELSE "sleep"

\* sensor_data = read_sensors(): a record that was read awaits transmission.
Taken(q, d) == IF d # NoData THEN Append(q, d.seq) ELSE q

\* The call send_data(sensor_data) has come to its outcome, or the cycle was
\* abandoned before the call: the loop will not send that record.
Released(q, d) == SelectSeq(q, LAMBDA n : n # d.seq)

\* esp32: dht_sensor.measure() raises OSError on a failed read (caught:
\* return None); otherwise temperature() and humidity() return floats.
esp32_read(raws) ==
  /\ variant = "esp32" /\ pc = "read" /\ cycle < MaxCycles
  /\ cycle' = cycle + 1
  /\ \/ \E t \in Temps, h \in Hums, raw \in raws :
          sensor_data' = Esp32Record(cycle + 1, t, h, raw)
     \/ sensor_data' = NoData
  /\ pc' = AfterRead(sensor_data')
  /\ cycleSends' = 0
  /\ UNCHANGED <<variant, wlan, timeout, led, net, ret, stopReason>>
  /\ held' = Taken(held, sensor_data')
  /\ UNCHANGED <<sent, answers, pulsed, slept, gap, gaps>>

esp32_read_sensors == esp32_read(Esp32RawSamples)

\* rpi: Adafruit_DHT.read_retry returns (humidity, temperature) or
\* (None, None); an exception of the driver is caught: return None.
rpi_read(raws) ==
  /\ variant = "rpi" /\ pc = "read" /\ cycle < MaxCycles
  /\ cycle' = cycle + 1
  /\ \/ \E ht \in ({<<NoData, NoData>>} \cup (Hums \X Temps)), raw \in raws :
          sensor_data' = IF ReadingMissing(ht[1], ht[2]) THEN NoData
                         ELSE RpiRecord(cycle + 1, ht[2], ht[1], raw)
     \/ sensor_data' = NoData
  /\ pc' = AfterRead(sensor_data')
  /\ cycleSends' = 0
  /\ UNCHANGED <<variant, wlan, timeout, led, net, ret, stopReason>>
  /\ held' = Taken(held, sensor_data')
  /\ UNCHANGED <<sent, answers, pulsed, slept, gap, gaps>>

rpi_read_sensors == rpi_read(RpiRawSamples)

(***************************************************************************)
(* The report of the readings and the call of send_data up to the request. *)
(***************************************************************************)
\* The four report lines, then send_data(sensor_data): the payload is built
\* and the POST is issued.  The backend will answer (or the connection
\* fail), or it stays silent.
StartSend ==
  /\ pc = "report"
  /\ pc' = "post"
  /\ net' \in {"live", "silent"}
  /\ sent' = Append(sent, sensor_data.seq)
  /\ gaps' = Append(gaps, gap)
  /\ gap' = 0
  /\ pulsed' = 0
  /\ cycleSends' = cycleSends + 1
  /\ ret' = "None"
  /\ UNCHANGED <<variant, wlan, timeout, sensor_data, led, stopReason, cycle,
                 answers, slept, held>>

\* esp32: an Exception raised by the loop body outside read_sensors and
\* send_data (the formatted prints) reaches `except Exception` inside the
\* loop: "Main loop error", then time.sleep(10).
esp32_loop_error ==
  /\ variant = "esp32" /\ pc = "report"
  /\ pc' = "err_sleep"
  /\ held' = Released(held, sensor_data)
  /\ UNCHANGED <<variant, wlan, timeout, sensor_data, led, net, ret, stopReason,
                 cycle>>
  /\ UNCHANGED <<sent, answers, pulsed, cycleSends, slept, gap, gaps>>

\* rpi: the same Exception reaches `except Exception` outside the loop:
\* "Main loop error", then finally: cleanup() (GPIO.cleanup releases the
\* LED pin) and run returns.
rpi_loop_error ==
  /\ variant = "rpi" /\ pc = "report"
  /\ pc' = "stopped"
  /\ stopReason' = "exception"
  /\ led' = FALSE
  /\ UNCHANGED <<variant, wlan, timeout, sensor_data, net, ret, cycle>>
  /\ UNCHANGED hist

(***************************************************************************)
(* send_data from the response on.                                         *)
(***************************************************************************)
\* A response arrives.  200: "Data sent successfully", LED on, and the
\* attempt sleeps 0.1 s; anything else: "Failed to send data", return False.
post_response ==
  /\ pc = "post" /\ net = "live"
  /\ \E status \in Statuses :
       /\ answers' = Append(answers, Answer("status", status))
       /\ IF StatusOk(status)
            THEN /\ led' = TRUE
                 /\ pulsed' = pulsed + 1
                 /\ pc' = "pulse"
                 /\ UNCHANGED ret
            ELSE /\ ret' = "False"
                 /\ pc' = "sleep"
                 /\ UNCHANGED <<led, pulsed>>
  /\ net' = "idle"
  /\ UNCHANGED <<variant, wlan, timeout, sensor_data, stopReason, cycle,
                 sent, cycleSends, slept, gap, gaps>>
  /\ held' = Released(held, sensor_data)

\* The connection fails (DNS, connect, TLS, reset): the exception is caught
\* in send_data, return False.
post_conn_error ==
  /\ pc = "post" /\ net = "live"
  /\ answers' = Append(answers, Answer("conn_error", 0))
  /\ ret' = "False"
  /\ pc' = "sleep"
  /\ net' = "idle"
  /\ UNCHANGED <<variant, wlan, timeout, sensor_data, led, stopReason, cycle,
                 sent, pulsed, cycleSends, slept, gap, gaps>>
  /\ held' = Released(held, sensor_data)

\* No answer within the request's timeout: requests raises Timeout (a
\* RequestException), caught in send_data, return False.  Only a request
\* made with a timeout can end this way.
post_timeout ==
  /\ pc = "post" /\ net = "silent"
  /\ IF variant = "esp32" THEN Esp32HasTimeout ELSE RpiHasTimeout
  /\ answers' = Append(answers, Answer("timeout", 0))
  /\ ret' = "False"
  /\ pc' = "sleep"
  /\ net' = "idle"
  /\ UNCHANGED <<variant, wlan, timeout, sensor_data, led, stopReason, cycle,
                 sent, pulsed, cycleSends, slept, gap, gaps>>
  /\ held' = Released(held, sensor_data)

\* The end of the pulse: led.off() / GPIO.LOW, return True.
pulse_end ==
  /\ pc = "pulse"
  /\ led' = FALSE
  /\ ret' = "True"
  /\ pc' = "sleep"
  /\ UNCHANGED <<variant, wlan, timeout, sensor_data, net, stopReason, cycle>>
  /\ UNCHANGED hist

\* The steps that end a pending request.
PostReturns == post_response \/ post_conn_error \/ post_timeout

(***************************************************************************)
(* The sleeps of the loop.                                                 *)
(***************************************************************************)
\* time.sleep(60), then the next turn of `while True`.
cycle_sleep ==
  /\ pc = "sleep"
  /\ pc' = "read"
  /\ slept' = PollInterval
  /\ gap' = gap + PollInterval
  /\ UNCHANGED <<variant, wlan, timeout, sensor_data, led, net, ret, stopReason,
                 cycle, sent, answers, pulsed, cycleSends, gaps, held>>

\* esp32: time.sleep(10) in the exception handler, then the next turn.
esp32_error_sleep ==
  /\ variant = "esp32" /\ pc = "err_sleep"
  /\ pc' = "read"
  /\ slept' = ErrorDelay
  /\ gap' = gap + ErrorDelay
  /\ UNCHANGED <<variant, wlan, timeout, sensor_data, led, net, ret, stopReason,
                 cycle, sent, answers, pulsed, cycleSends, gaps, held>>

(***************************************************************************)
(* KeyboardInterrupt, the external shutdown signal.                        *)
(***************************************************************************)
\* esp32: KeyboardInterrupt is no Exception, so neither read_sensors nor
\* send_data catches it; main's `except KeyboardInterrupt: break` (or, out
\* of the try, the interpreter) ends the program.  Nothing else is run: the
\* LED keeps its level.
esp32_keyboard_interrupt ==
  /\ variant = "esp32" /\ pc # "stopped"
  /\ pc' = "stopped"
  /\ stopReason' = "keyboard_interrupt"
  /\ UNCHANGED <<variant, wlan, timeout, sensor_data, led, net, ret, cycle>>
  /\ UNCHANGED hist

\* rpi: run's `except KeyboardInterrupt`, then finally: cleanup(), whose
\* GPIO.cleanup() releases the LED pin.
rpi_keyboard_interrupt ==
  /\ variant = "rpi" /\ pc # "stopped"
  /\ pc' = "stopped"
  /\ stopReason' = "keyboard_interrupt"
  /\ led' = FALSE
  /\ UNCHANGED <<variant, wlan, timeout, sensor_data, net, ret, cycle>>
  /\ UNCHANGED hist

Next ==
  \/ connect_wifi
  \/ wifi_wait
  \/ wifi_result
  \/ esp32_read_sensors
  \/ rpi_read_sensors
  \/ StartSend
  \/ esp32_loop_error
  \/ rpi_loop_error
  \/ post_response
  \/ post_conn_error
  \/ post_timeout
  \/ pulse_end
  \/ cycle_sleep
  \/ esp32_error_sleep
  \/ esp32_keyboard_interrupt
  \/ rpi_keyboard_interrupt

Spec == Init /\ [][Next]_vars

(***************************************************************************)
(* The normaliser on every raw value: a second specification, which        *)
(* enters the loop directly and draws the raw gas value from the whole     *)
(* range of each device.                                                   *)
(***************************************************************************)
InitNorm ==
  /\ variant \in Variants
  /\ pc = "read"
  /\ wlan = TRUE
  /\ timeout = 0
  /\ sensor_data = NoData
  /\ led \in IF variant = "esp32" THEN BOOLEAN ELSE {FALSE}
  /\ net = "idle"
  /\ ret = "None"
  /\ stopReason = "none"
  /\ cycle = 0
  /\ sent = <<>>
  /\ answers = <<>>
  /\ pulsed = 0
  /\ cycleSends = 0
  /\ slept = 0
  /\ gap = 0
  /\ gaps = <<>>
  /\ held = <<>>

esp32_normalize == esp32_read(Esp32RawRange)

rpi_normalize == rpi_read(RpiRawRange)

NextNorm == esp32_normalize \/ rpi_normalize

SpecNorm == InitNorm /\ [][NextNorm]_vars

(***************************************************************************)
(* Vocabulary of the properties.                                           *)
(***************************************************************************)
\* The delivery outcomes of the specification, read off how an attempt ended.
Retryable(a) ==
  \/ a.kind \in {"conn_error", "timeout"}
  \/ a.kind = "status" /\ a.code \in 500 .. 599

\* A poll step that yields a new record.
Arrival == cycle' = cycle + 1 /\ sensor_data' # NoData

\* The full-scale code of the running device.
FullScale == IF variant = "esp32" THEN Esp32FullScale ELSE RpiFullScale

\* A cycle whose sensor read failed.
FailedCycle == cycle >= 1 /\ sensor_data = NoData

(***************************************************************************)
(* C1                                                                      *)
(***************************************************************************)
\* C1 as stated: a record whose attempt ended in a retryable failure is the
\* record of the very next send attempt; a record whose attempt ended
\* Delivered or in a terminal failure is never attempted again.
C1_RetryableIsNextAttempt ==
  \A i \in 1 .. Len(answers) :
    IF Retryable(answers[i])
      THEN (i + 1 <= Len(sent) => sent[i + 1] = sent[i])
      ELSE \A j \in (i + 1) .. Len(sent) : sent[j] # sent[i]

C3_StopsOnlyOnShutdown ==
  pc = "stopped" => stopReason = "keyboard_interrupt"

(***************************************************************************)
(* C4                                                                      *)
(***************************************************************************)
\* C4: in a cycle whose sensor read failed no send attempt is made, the
\* loop goes to the inter-cycle sleep, and unless the agent is shut down
\* that sleep lasts the normal 60 seconds and leads to the next poll.
C4_FailedReadSkipsSend ==
  /\ [](FailedCycle => cycleSends = 0 /\ pc \in {"sleep", "read", "stopped"})
  /\ [][FailedCycle /\ pc = "sleep" =>
          (pc' = "read" /\ slept' = 60) \/ pc' = "stopped"]_vars

\* A cycle failed, and the next cycle read, sent and delivered its record.
C4_Witness ==
  /\ variant = "rpi" /\ cycle = 2
  /\ sent = <<2>> /\ ret = "True" /\ pc = "sleep"

(***************************************************************************)
(* C5                                                                      *)
(***************************************************************************)
\* C5: with c = v / FULL_SCALE * 1000 the category of a record is Good
\* exactly when c < 400, Moderate exactly when 400 <= c < 1000 and Poor
\* exactly when c >= 1000.
C5_CategoryByThresholds ==
  sensor_data # NoData =>
    LET v == sensor_data.raw_mq135
        q == sensor_data.air_quality
    IN /\ (q = "Good") <=> (v * 1000 < 400 * FullScale)
       /\ (q = "Moderate") <=>
            (400 * FullScale <= v * 1000 /\ v * 1000 < 1000 * FullScale)
       /\ (q = "Poor") <=> (v * 1000 >= 1000 * FullScale)

\* The boundary c = 400 exactly (raw 1638 of 4095) is Moderate.
C5_Witness ==
  /\ sensor_data # NoData /\ variant = "esp32"
  /\ sensor_data.raw_mq135 * 1000 = 400 * FullScale
  /\ sensor_data.air_quality = "Moderate"

C7_PendingRequestCanReturn ==
  pc = "post" => ENABLED PostReturns

(***************************************************************************)
(* C8                                                                      *)
(***************************************************************************)
\* C8: once the shutdown signal is observed the agent has stopped and no
\* success pulse is left unfinished: the status LED is not on from a pulse
\* that the interrupted send attempt began.
C8_ShutdownLeavesLedOff ==
  stopReason = "keyboard_interrupt" =>
    pc = "stopped" /\ ~(led /\ pulsed = 1 /\ ret = "None")

(***************************************************************************)
(* C9                                                                      *)
(***************************************************************************)
\* C9: after a retryable failure the next send attempt is again that
\* record's, and from the second failure in a row of that record on, the
\* delay before the next attempt is longer than the delay before the
\* previous one, or both are the ceiling: equal, and no delay between that
\* record's attempts is longer.
C9_BackoffGrowsToCeiling ==
  \A i \in 2 .. Len(sent) :
    Retryable(answers[i - 1]) =>
      /\ sent[i] = sent[i - 1]
      /\ (i >= 3 /\ sent[i - 1] = sent[i - 2] /\ Retryable(answers[i - 2])) =>
           \/ gaps[i] > gaps[i - 1]
           \/ /\ gaps[i] = gaps[i - 1]
              /\ \A k \in 2 .. Len(sent) :
                   (sent[k] = sent[i] /\ sent[k - 1] = sent[i])
                     => gaps[k] <= gaps[i]

(***************************************************************************)
(* C10                                                                     *)
(***************************************************************************)
\* C10: the concentration never exceeds 1000; the ESP32 reports Poor for
\* the raw value 4095 and for no other, the Raspberry Pi never reports Poor.
C10_PoorOnlyAtFullScale ==
  sensor_data # NoData =>
    /\ sensor_data.raw_mq135 * 1000 <= 1000 * FullScale
    /\ variant = "esp32" =>
         ((sensor_data.air_quality = "Poor") <=> (sensor_data.raw_mq135 = 4095))
    /\ variant = "rpi" => sensor_data.air_quality # "Poor"

\* The ESP32 has read the raw value 4095 and reports Poor.
C10_Witness ==
  /\ variant = "esp32" /\ sensor_data # NoData
  /\ sensor_data.raw_mq135 = 4095 /\ sensor_data.air_quality = "Poor"

====
